---- MODULE Spec2Model ----
(***************************************************************************)
(* MySQLStyleSearchService (src/src/services/mysql-style-search.ts):        *)
(* keyword tokenizer, per-keyword windowed text-field lookups, AND          *)
(* intersection, descending sort, pagination, detail fetch and architect    *)
(* name reassembly.  A string is a sequence of one-character strings; the   *)
(* remote database is a record of four tables that no action changes.       *)
(***************************************************************************)
EXTENDS Integers, Sequences, FiniteSets, TLC

\* ------------------------------------------------------------------ bounds
MaxLen == 5      \* longest raw query handed to splitKeywords
MaxPage == 3     \* pages 1..MaxPage are requested
MaxLimit == 2    \* limits 1..MaxLimit are requested

\* The fetch window of the text-field lookups: range(offset, offset + 999),
\* data.length < 1000, offset += 1000.  The model scales the window from
\* 1000 rows to 2 rows, so that a table of three buildings has full pages,
\* short pages and empty pages.
WINDOW == 2

\* ----------------------------------------------------------------- strings
SP == " "            \* half-width space
FWSP == "U+3000"     \* full-width (ideographic) space, one character
TAB == "\t"
Alphabet == {"A", "B", "C", SP, FWSP, TAB}
SEP == <<" ", "/", " ">>      \* the separator ' / ' of join

\* filters.query may be undefined
UNDEFINED == <<"undefined">>

RECURSIVE StringsUpTo(_)
StringsUpTo(n) ==
  IF n = 0 THEN {<<>>}
  ELSE LET S == StringsUpTo(n - 1)
       IN  S \cup {Append(s, c) : s \in {t \in S : Len(t) = n - 1}, c \in Alphabet}

\* searchQuery.replace(/U+3000/g, ' ')
ReplaceFullWidth(s) == [i \in 1..Len(s) |-> IF s[i] = FWSP THEN SP ELSE s[i]]

\* String.prototype.split(' '): the pieces between the separators, the empty
\* pieces included; ''.split(' ') is [''].
RECURSIVE SplitFrom(_, _, _)
SplitFrom(s, i, cur) ==
  IF i > Len(s) THEN <<cur>>
  ELSE IF s[i] = SP THEN <<cur>> \o SplitFrom(s, i + 1, <<>>)
  ELSE SplitFrom(s, i + 1, Append(cur, s[i]))

SplitOnSpace(s) == SplitFrom(s, 1, <<>>)

IsWhite(c) == c \in {SP, FWSP, TAB}

\* String.prototype.trim(): strips white space at both ends
RECURSIVE TrimLeft(_)
TrimLeft(s) == IF s # <<>> /\ IsWhite(Head(s)) THEN TrimLeft(Tail(s)) ELSE s

RECURSIVE TrimRight(_)
TrimRight(s) ==
  IF s # <<>> /\ IsWhite(s[Len(s)]) THEN TrimRight(SubSeq(s, 1, Len(s) - 1)) ELSE s

Trim(s) == TrimRight(TrimLeft(s))

KeepKeyword(keyword) == Trim(keyword) # <<>>

\* a plausible slip: the full-width space is not normalised
splitKeywordsNoNormalise(searchQuery) ==
  SelectSeq(SplitOnSpace(searchQuery), KeepKeyword)

splitKeywords(searchQuery) ==
  LET temp == ReplaceFullWidth(searchQuery)
  IN  SelectSeq(SplitOnSpace(temp), KeepKeyword)

\* join(sep) of a list of strings
RECURSIVE Join(_, _)
Join(list, sep) ==
  IF list = <<>> THEN <<>>
  ELSE IF Len(list) = 1 THEN list[1]
  ELSE list[1] \o sep \o Join(Tail(list), sep)

\* filter(Boolean) on a list of strings: '' (and null, undefined, both
\* modelled as the empty string) are dropped
Truthy(s) == s # <<>>

Min(a, b) == IF a < b THEN a ELSE b

\* Math.ceil(n / d) for n >= 0, d >= 1
Ceil(n, d) == (n + d - 1) \div d

Range(f) == {f[i] : i \in DOMAIN f}

\* Array.prototype.sort(compare) with a numeric compare: stable, ascending
\* in the key.  The elements travel as <<key, element>> pairs.
RECURSIVE InsertKeyed(_, _)
InsertKeyed(x, t) ==
  IF t = <<>> THEN <<x>>
  ELSE IF x[1] < Head(t)[1] THEN <<x>> \o t
  ELSE <<Head(t)>> \o InsertKeyed(x, Tail(t))

RECURSIVE SortKeyed(_)
SortKeyed(s) ==
  IF s = <<>> THEN <<>>
  ELSE InsertKeyed(s[Len(s)], SortKeyed(SubSeq(s, 1, Len(s) - 1)))

\* keys[i] is the key of s[i]
SortBy(s, keys) ==
  LET sorted == SortKeyed([i \in 1..Len(s) |-> <<keys[i], s[i]>>])
  IN  [i \in 1..Len(s) |-> sorted[i][2]]

\* ---------------------------------------------------------------- database
\* The ten text columns of buildings_table_2 the search looks at, in the
\* order of searchFields.
Fields ==
  << "title", "titleEn", "buildingTypes", "buildingTypesEn", "location",
     "locationEn_from_datasheetChunkEn", "prefectures", "prefecturesEn",
     "areas", "areasEn" >>

\* A row of buildings_table_2: its id and its text columns (a column left
\* out is NULL, which no pattern matches, as the empty string).
Building(id, cols) ==
  [building_id |-> id,
   text |-> [f \in Range(Fields) |-> IF f \in DOMAIN cols THEN cols[f] ELSE <<>>]]

BuildingTables ==
  { \* every title matches "a" and "b": a full window, then a short one
    << Building(2, [title |-> <<"a", "b">>, location |-> <<"B">>]),
       Building(3, [title |-> <<"A", "b">>, areasEn |-> <<"a">>]),
       Building(1, [title |-> <<"b", "a">>, titleEn |-> <<"A">>]) >>,
    \* one building matches through two columns
    << Building(2, [title |-> <<"a">>, prefectures |-> <<"x", "b">>]),
       Building(3, [titleEn |-> <<"A">>, buildingTypes |-> <<"a", "x">>]),
       Building(1, [location |-> <<"B">>]) >>,
    \* exactly one window of title matches: a full page, then an empty one
    << Building(1, [title |-> <<"a">>]),
       Building(3, [title |-> <<"x", "A">>]),
       Building(2, [title |-> <<"b">>, areas |-> <<"b">>]) >> }

\* building_architects: building 3 is credited to groups 20 and 10 in that
\* order, building 2 to group 10, building 1 to group 30.
BuildingArchitects ==
  << [building_id |-> 3, architect_id |-> 10, architect_order |-> 2],
     [building_id |-> 1, architect_id |-> 30, architect_order |-> 1],
     [building_id |-> 3, architect_id |-> 20, architect_order |-> 1],
     [building_id |-> 2, architect_id |-> 10, architect_order |-> 1] >>

\* architect_compositions: the members of each group with their order_index
ArchitectCompositions ==
  << [architect_id |-> 10, individual_architect_id |-> 101, order_index |-> 2],
     [architect_id |-> 20, individual_architect_id |-> 202, order_index |-> 2],
     [architect_id |-> 10, individual_architect_id |-> 102, order_index |-> 1],
     [architect_id |-> 30, individual_architect_id |-> 301, order_index |-> 1],
     [architect_id |-> 20, individual_architect_id |-> 201, order_index |-> 1] >>

Individual(id, ja, en) ==
  [individual_architect_id |-> id, name_ja |-> ja, name_en |-> en]

IndividualTables ==
  { \* everybody is named in both languages
    << Individual(101, <<"c">>, <<"C">>), Individual(102, <<"d">>, <<"D">>),
       Individual(201, <<"e">>, <<"E">>), Individual(202, <<"f">>, <<"F">>),
       Individual(301, <<"g">>, <<"G">>) >>,
    \* 102 has no Japanese name, group 20 has no named member, 301 is not
    \* in the table
    << Individual(101, <<"c">>, <<"C">>), Individual(102, <<>>, <<"D">>),
       Individual(201, <<>>, <<>>), Individual(202, <<>>, <<>>) >>,
    \* nobody has an English name
    << Individual(101, <<"c">>, <<>>), Individual(102, <<"d">>, <<>>),
       Individual(201, <<"e">>, <<>>), Individual(202, <<"f">>, <<>>),
       Individual(301, <<"g">>, <<>>) >> }

Databases ==
  { [buildings_table_2 |-> bt,
     building_architects |-> BuildingArchitects,
     architect_compositions |-> ArchitectCompositions,
     individual_architects |-> it] : bt \in BuildingTables, it \in IndividualTables }

\* ilike: case-insensitive; the model's letters
Lower(c) ==
  CASE c = "A" -> "a" [] c = "B" -> "b" [] c = "C" -> "c" [] c = "D" -> "d"
    [] c = "E" -> "e" [] c = "F" -> "f" [] c = "G" -> "g" [] OTHER -> c

LowerStr(s) == [i \in 1..Len(s) |-> Lower(s[i])]

\* column ILIKE '%keyword%'
ILike(text, keyword) ==
  \E i \in 1..(Len(text) - Len(keyword) + 1) :
    SubSeq(LowerStr(text), i, i + Len(keyword) - 1) = LowerStr(keyword)

\* .range(from, to): rows from..to of the answer, counted from 0
RangeRows(rows, from, to) == SubSeq(rows, from + 1, Min(to + 1, Len(rows)))

\* a plausible slip: the window is one row short (range(offset, offset + 998))
TextLookupShortWindow(d, field, keyword, offset) ==
  LET hit(row) == ILike(row.text[field], keyword)
      rows == RangeRows(SelectSeq(d.buildings_table_2, hit), offset, offset + WINDOW - 2)
  IN  [i \in 1..Len(rows) |-> rows[i].building_id]

\* from('buildings_table_2').select('building_id').ilike(field, '%keyword%')
\*   .range(offset, offset + 999)
TextLookup(d, field, keyword, offset) ==
  LET hit(row) == ILike(row.text[field], keyword)
      rows == RangeRows(SelectSeq(d.buildings_table_2, hit), offset, offset + WINDOW - 1)
  IN  [i \in 1..Len(rows) |-> rows[i].building_id]

\* from('buildings_table_2').select('*').in('building_id', ids)
\*   .order('building_id', { ascending: false })
DetailLookup(d, ids) ==
  LET hit(row) == row.building_id \in Range(ids)
      rows == SelectSeq(d.buildings_table_2, hit)
  IN  SortBy(rows, [i \in 1..Len(rows) |-> 0 - rows[i].building_id])

\* from('building_architects').select(...).in('building_id', buildingIds)
\*   .order('building_id, architect_order')
BuildingArchitectsLookup(d, ids) ==
  LET hit(row) == row.building_id \in Range(ids)
      rows == SelectSeq(d.building_architects, hit)
  IN  SortBy(rows, [i \in 1..Len(rows) |->
                     rows[i].building_id * 1000 + rows[i].architect_order])

\* from('architect_compositions').select(...).in('architect_id', architectIds)
\*   .order('architect_id, order_index')
CompositionsLookup(d, architectIds) ==
  LET hit(row) == row.architect_id \in architectIds
      rows == SelectSeq(d.architect_compositions, hit)
  IN  SortBy(rows, [i \in 1..Len(rows) |->
                     rows[i].architect_id * 1000 + rows[i].order_index])

\* from('individual_architects').select(...).in('individual_architect_id', ids)
IndividualsLookup(d, individualArchitectIds) ==
  LET hit(row) == row.individual_architect_id \in individualArchitectIds
  IN  SelectSeq(d.individual_architects, hit)

\* ------------------------------------------------------------ the service
\* A JavaScript Set of numbers: duplicate-free, iterated in insertion order.
SetAdd(set, x) == IF x \in Range(set) THEN set ELSE Append(set, x)

\* data.forEach(building => allBuildingIds.add(building.building_id))
RECURSIVE AddAll(_, _)
AddAll(set, data) ==
  IF data = <<>> THEN set ELSE AddAll(SetAdd(set, Head(data)), Tail(data))

\* searchInArchitectTables(keyword) when its three lookups answer { data }:
\* the individuals named like the keyword, the groups they are members of,
\* the buildings credited to those groups (one id per building_architects
\* row).  No row count of the model reaches the limit(10000) of each lookup.
searchInArchitectTables(d, keyword) ==
  LET named(ia) == ILike(ia.name_ja, keyword) \/ ILike(ia.name_en, keyword)
      individualArchitects == SelectSeq(d.individual_architects, named)
      individualArchitectIds ==
        {individualArchitects[i].individual_architect_id :
           i \in 1..Len(individualArchitects)}
      member(ac) == ac.individual_architect_id \in individualArchitectIds
      comps == SelectSeq(d.architect_compositions, member)
      architectIds == {comps[i].architect_id : i \in 1..Len(comps)}
      credited(ba) == ba.architect_id \in architectIds
      bas == SelectSeq(d.building_architects, credited)
  IN  [i \in 1..Len(bas) |-> bas[i].building_id]

\* const architectBuildingIds = []; // await this.searchInArchitectTables(keyword)
\* The architect path of the per-keyword resolver is switched off ("for
\* debugging, temporarily"): searchInArchitectTables is never called.
architectBuildingIds(d, keyword) == <<>>

\* buildingIds: the ids of the buildings table, then those of the architect
\* tables, in a fresh Set
KeywordSet(buildingsData, architectIds) == AddAll(AddAll(<<>>, buildingsData), architectIds)

\* a plausible slip: the first keyword's set is returned unfiltered
IntersectFirstOnly(buildingIdSets) ==
  IF buildingIdSets = <<>> THEN <<>> ELSE buildingIdSets[1]

RECURSIVE IntersectFrom(_, _, _)
IntersectFrom(resultIds, buildingIdSets, i) ==
  IF i > Len(buildingIdSets) THEN resultIds
  ELSE LET has(id) == id \in Range(buildingIdSets[i])
       IN  IntersectFrom(SelectSeq(resultIds, has), buildingIdSets, i + 1)

\* resultIds = buildingIdSets[0] || new Set(), filtered by every later set
Intersect(buildingIdSets) ==
  IF buildingIdSets = <<>> THEN <<>>
  ELSE IntersectFrom(buildingIdSets[1], buildingIdSets, 2)

\* a plausible slip: ascending instead of descending
SortAscending(buildingIds) == SortBy(buildingIds, buildingIds)

\* buildingIds.sort((a, b) => b - a)
SortDescending(buildingIds) ==
  SortBy(buildingIds, [i \in 1..Len(buildingIds) |-> 0 - buildingIds[i]])

\* Array.prototype.slice(start, end) for 0 <= start <= end
Slice(list, start, end) == SubSeq(list, start + 1, Min(end, Len(list)))

\* sortedBuildingIds.slice(offset, offset + limit), offset = (page - 1) * limit
Paginate(sortedIds, p, l) == Slice(sortedIds, (p - 1) * l, (p - 1) * l + l)

\* a plausible slip: the empty result always reports page 1
EmptyResultPageOne(p) == [data |-> <<>>, count |-> 0, page |-> 1, totalPages |-> 0]

\* { data: [], count: 0, page, totalPages: 0 }
EmptyResult(p) == [data |-> <<>>, count |-> 0, page |-> p, totalPages |-> 0]

\* no result yet (the promise is pending) or none at all (it was rejected)
NoResult == [data |-> <<>>, count |-> 0 - 1, page |-> 0, totalPages |-> 0 - 1]

\* architectMap.get(comp.individual_architect_id): the row, or undefined,
\* whose names are undefined
ArchitectOf(individualArchitects, id) ==
  LET hit(row) == row.individual_architect_id = id
      rows == SelectSeq(individualArchitects, hit)
  IN  IF rows = <<>> THEN Individual(id, <<>>, <<>>) ELSE rows[Len(rows)]

\* compositionMap.get(architect_id) || []
CompositionsOf(comps, individualArchitects, architectId) ==
  LET hit(row) == row.architect_id = architectId
      rows == SelectSeq(comps, hit)
  IN  [i \in 1..Len(rows) |->
        [order_index |-> rows[i].order_index,
         individual_architects |->
           ArchitectOf(individualArchitects, rows[i].individual_architect_id)]]

\* result[ba.building_id].push({ ...ba, architect_compositions })
ArchitectData(bas, comps, individualArchitects) ==
  [b \in {bas[i].building_id : i \in 1..Len(bas)} |->
    LET hit(row) == row.building_id = b
        rows == SelectSeq(bas, hit)
    IN  [i \in 1..Len(rows) |->
          [architect_id |-> rows[i].architect_id,
           architect_order |-> rows[i].architect_order,
           architect_compositions |->
             CompositionsOf(comps, individualArchitects, rows[i].architect_id)]]]

\* return {}
EmptyArchitectData == [b \in {} |-> <<>>]

NameIn(ia, language) == IF language = "ja" THEN ia.name_ja ELSE ia.name_en

\* a plausible slip: the member names are joined without filter(Boolean)
ArchitectNamesKeepBlanks(groups, language) ==
  LET sorted == SortBy(groups, [i \in 1..Len(groups) |-> groups[i].architect_order])
      members(ba) ==
        SortBy(ba.architect_compositions,
               [i \in 1..Len(ba.architect_compositions) |->
                  ba.architect_compositions[i].order_index])
      groupNames(ba) ==
        Join([i \in 1..Len(members(ba)) |->
               NameIn(members(ba)[i].individual_architects, language)], SEP)
  IN  Join(SelectSeq([i \in 1..Len(sorted) |-> groupNames(sorted[i])], Truthy), SEP)

\* buildingArchitects.sort(by architect_order).map(ba =>
\*   ba.architect_compositions.sort(by order_index).map(name).filter(Boolean)
\*     .join(' / ')).filter(Boolean).join(' / ') || ''
ArchitectNames(groups, language) ==
  LET sorted == SortBy(groups, [i \in 1..Len(groups) |-> groups[i].architect_order])
      members(ba) ==
        SortBy(ba.architect_compositions,
               [i \in 1..Len(ba.architect_compositions) |->
                  ba.architect_compositions[i].order_index])
      groupNames(ba) ==
        Join(SelectSeq([i \in 1..Len(members(ba)) |->
               NameIn(members(ba)[i].individual_architects, language)], Truthy), SEP)
  IN  Join(SelectSeq([i \in 1..Len(sorted) |-> groupNames(sorted[i])], Truthy), SEP)

\* buildingsData.map(building => ({ ..., architectJa, architectEn }))
TransformedData(rows, architectData) ==
  [i \in 1..Len(rows) |->
    LET id == rows[i].building_id
        groups == IF id \in DOMAIN architectData THEN architectData[id] ELSE <<>>
    IN  [building_id |-> id,
         architectJa |-> ArchitectNames(groups, "ja"),
         architectEn |-> ArchitectNames(groups, "en")]]

\* { data: transformedData, count: buildingIds.length, page,
\*   totalPages: Math.ceil(buildingIds.length / limit) }
SearchResult(rows, architectData, n, p, l) ==
  [data |-> TransformedData(rows, architectData),
   count |-> n, page |-> p, totalPages |-> Ceil(n, l)]

\* a plausible slip: every failed lookup is thrown on to the caller
PropagatesAlways(stage, outcome) == outcome # "ok"

\* Which failed lookups reach the caller of searchBuildings.  A lookup
\* answers { data }, answers { error } or throws.  The detail fetch throws
\* its reported error on; no try/catch stands between a text-field lookup
\* that throws and the catch of searchBuildings, which rethrows; the catch
\* of getArchitectDataForBuildings turns everything into {}.
Propagates(stage, outcome) ==
  \/ stage = "detail" /\ outcome \in {"error", "throw"}
  \/ stage = "text" /\ outcome = "throw"

\* ------------------------------------------------------------------- state
Requests == {1, 2}

VARIABLES
  db,                 \* the remote database; no action changes it
  active,             \* the searchBuildings calls of this run
  mayFail,            \* whether a remote lookup may answer { error } or throw
  query, page, limit, \* the arguments of each call
  pc,                 \* where each call stands: the await it is suspended at
  keywords, kwIdx, fieldIdx, offset,
  allBuildingIds,     \* the Set of the keyword being resolved
  buildingIdSets,     \* one Set per resolved keyword
  sortedBuildingIds, paginatedIds, buildingsData,
  buildingArchitects, compositions,
  result,             \* what the call returned
  lastLookup,         \* the last remote lookup the call got an answer to
  issued,             \* whether the call has issued a remote lookup
  textErr,            \* a text-field lookup of the call answered { error }
  archErr,            \* an architect lookup of the call failed
  sq, kws, splitPc    \* a splitKeywords call on its own

vars ==
  << db, active, mayFail, query, page, limit, pc, keywords, kwIdx, fieldIdx,
     offset, allBuildingIds, buildingIdSets, sortedBuildingIds, paginatedIds,
     buildingsData, buildingArchitects, compositions, result, lastLookup,
     issued, textErr, archErr, sq, kws, splitPc >>

env == << db, active, mayFail, query, page, limit >>
split == << sq, kws, splitPc >>

\* a plausible slip: the Sets live in the service object, shared by its calls
SharedSlot(r) == 1

\* Where the Sets of call r live: buildingIdSets and allBuildingIds are
\* locals of searchBuildingIdsByKeywords, one of each per call.
Slot(r) == r

Outcomes == IF mayFail THEN {"ok", "error", "throw"} ELSE {"ok"}

NoLookup == [stage |-> "none", keyword |-> 0, field |-> 0, offset |-> 0,
             rows |-> 0, outcome |-> "ok"]

Lookup(stage, k, f, o, n, out) ==
  [stage |-> stage, keyword |-> k, field |-> f, offset |-> o, rows |-> n,
   outcome |-> out]

Queries ==
  { UNDEFINED, <<>>, <<SP, FWSP>>, <<"a">>, <<"b">>, <<"c">>, <<"x">>,
    <<"a", SP, "b">>, <<"B", FWSP, "a">>, <<"a", SP, "a", SP, "b">> }

ConcurrentQueries == { <<"a">>, <<"a", SP, "b">>, <<>> }

InitCalls(reqs, fail, dbs, qs) ==
  /\ db \in dbs
  /\ active = reqs
  /\ mayFail = fail
  /\ query \in [Requests -> qs]
  /\ page \in [Requests -> 1..MaxPage]
  /\ limit \in [Requests -> 1..MaxLimit]
  /\ \A r \in Requests \ reqs : query[r] = <<>> /\ page[r] = 1 /\ limit[r] = 1
  /\ pc = [r \in Requests |-> IF r \in reqs THEN "init" ELSE "idle"]
  /\ keywords = [r \in Requests |-> <<>>]
  /\ kwIdx = [r \in Requests |-> 0]
  /\ fieldIdx = [r \in Requests |-> 0]
  /\ offset = [r \in Requests |-> 0]
  /\ allBuildingIds = [r \in Requests |-> <<>>]
  /\ buildingIdSets = [r \in Requests |-> <<>>]
  /\ sortedBuildingIds = [r \in Requests |-> <<>>]
  /\ paginatedIds = [r \in Requests |-> <<>>]
  /\ buildingsData = [r \in Requests |-> <<>>]
  /\ buildingArchitects = [r \in Requests |-> <<>>]
  /\ compositions = [r \in Requests |-> <<>>]
  /\ result = [r \in Requests |-> NoResult]
  /\ lastLookup = [r \in Requests |-> NoLookup]
  /\ issued = [r \in Requests |-> FALSE]
  /\ textErr = [r \in Requests |-> FALSE]
  /\ archErr = [r \in Requests |-> FALSE]

\* one searchBuildings call, whose lookups may fail
Init ==
  /\ InitCalls({1}, TRUE, Databases, Queries)
  /\ sq = <<>> /\ kws = <<>> /\ splitPc = "idle"

\* two searchBuildings calls at once
InitConcurrent ==
  /\ InitCalls({1, 2}, FALSE, Databases, ConcurrentQueries)
  /\ db.individual_architects = CHOOSE t \in IndividualTables : Len(t) = 4
  /\ db.buildings_table_2[1].text["title"] = <<"a", "b">>
  /\ sq = <<>> /\ kws = <<>> /\ splitPc = "idle"

\* one splitKeywords call on any string of at most MaxLen characters
InitSplit ==
  /\ InitCalls({}, FALSE, {CHOOSE d \in Databases : TRUE}, {<<>>})
  /\ sq \in StringsUpTo(MaxLen)
  /\ kws = <<>>
  /\ splitPc = "call"

\* ----------------------------------------------------------------- actions
\* splitKeywords(searchQuery)
SplitKeywordsCall ==
  /\ splitPc = "call"
  /\ kws' = splitKeywords(sq)
  /\ splitPc' = "done"
  /\ UNCHANGED << env, sq, pc, keywords, kwIdx, fieldIdx, offset, allBuildingIds,
                  buildingIdSets, sortedBuildingIds, paginatedIds, buildingsData,
                  buildingArchitects, compositions, result, lastLookup, issued,
                  textErr, archErr >>

\* searchBuildings up to its first await: the keywords are split; with no
\* keyword searchBuildingIdsByKeywords returns [] and the call returns the
\* empty result, otherwise the first text-field lookup is issued.
StartSearch(r) ==
  /\ pc[r] = "init"
  /\ LET ks == splitKeywords(IF query[r] = UNDEFINED THEN <<>> ELSE query[r])
     IN  /\ keywords' = [keywords EXCEPT ![r] = ks]
         /\ IF ks = <<>>
            THEN /\ result' = [result EXCEPT ![r] = EmptyResult(page[r])]
                 /\ pc' = [pc EXCEPT ![r] = "done"]
                 /\ UNCHANGED << kwIdx, fieldIdx, offset, allBuildingIds,
                                 buildingIdSets, issued >>
            ELSE /\ buildingIdSets' = [buildingIdSets EXCEPT ![Slot(r)] = <<>>]
                 /\ allBuildingIds' = [allBuildingIds EXCEPT ![Slot(r)] = <<>>]
                 /\ kwIdx' = [kwIdx EXCEPT ![r] = 1]
                 /\ fieldIdx' = [fieldIdx EXCEPT ![r] = 1]
                 /\ offset' = [offset EXCEPT ![r] = 0]
                 /\ issued' = [issued EXCEPT ![r] = TRUE]
                 /\ pc' = [pc EXCEPT ![r] = "field"]
                 /\ UNCHANGED result
  /\ UNCHANGED << env, split, sortedBuildingIds, paginatedIds, buildingsData,
                  buildingArchitects, compositions, lastLookup, textErr, archErr >>

\* The answer to condition(offset) and what follows it up to the next await:
\* the rest of the window loop, of the field loop and of the keyword loop,
\* the intersection, and in searchBuildings the sort, the slice and the
\* issue of the detail fetch.
FieldLookup(r) ==
  /\ pc[r] = "field"
  /\ \E o \in Outcomes :
       LET s == Slot(r)
           keyword == keywords[r][kwIdx[r]]
           data == IF o = "ok"
                   THEN TextLookup(db, Fields[fieldIdx[r]], keyword, offset[r])
                   ELSE <<>>
           ids == AddAll(allBuildingIds[s], data)
           hasMore == o = "ok" /\ Len(data) > 0 /\ ~(Len(data) < WINDOW)
           lastField == fieldIdx[r] = Len(Fields)
           lastKeyword == kwIdx[r] = Len(keywords[r])
           sets == Append(buildingIdSets[s],
                          KeywordSet(ids, architectBuildingIds(db, keyword)))
           finalIds == Intersect(sets)
           sorted == SortDescending(finalIds)
       IN  /\ lastLookup' = [lastLookup EXCEPT ![r] =
                 Lookup("text", kwIdx[r], fieldIdx[r], offset[r], Len(data), o)]
           /\ textErr' = [textErr EXCEPT ![r] = @ \/ o = "error"]
           /\ IF Propagates("text", o)
              THEN /\ pc' = [pc EXCEPT ![r] = "failed"]
                   /\ UNCHANGED << kwIdx, fieldIdx, offset, allBuildingIds,
                                   buildingIdSets, sortedBuildingIds,
                                   paginatedIds, result >>
              ELSE IF hasMore
              THEN /\ allBuildingIds' = [allBuildingIds EXCEPT ![s] = ids]
                   /\ offset' = [offset EXCEPT ![r] = @ + WINDOW]
                   /\ UNCHANGED << pc, kwIdx, fieldIdx, buildingIdSets,
                                   sortedBuildingIds, paginatedIds, result >>
              ELSE IF ~lastField
              THEN /\ allBuildingIds' = [allBuildingIds EXCEPT ![s] = ids]
                   /\ fieldIdx' = [fieldIdx EXCEPT ![r] = @ + 1]
                   /\ offset' = [offset EXCEPT ![r] = 0]
                   /\ UNCHANGED << pc, kwIdx, buildingIdSets, sortedBuildingIds,
                                   paginatedIds, result >>
              ELSE IF ~lastKeyword
              THEN /\ buildingIdSets' = [buildingIdSets EXCEPT ![s] = sets]
                   /\ allBuildingIds' = [allBuildingIds EXCEPT ![s] = <<>>]
                   /\ kwIdx' = [kwIdx EXCEPT ![r] = @ + 1]
                   /\ fieldIdx' = [fieldIdx EXCEPT ![r] = 1]
                   /\ offset' = [offset EXCEPT ![r] = 0]
                   /\ UNCHANGED << pc, sortedBuildingIds, paginatedIds, result >>
              ELSE /\ buildingIdSets' = [buildingIdSets EXCEPT ![s] = sets]
                   /\ allBuildingIds' = [allBuildingIds EXCEPT ![s] = ids]
                   /\ UNCHANGED << kwIdx, fieldIdx, offset >>
                   /\ IF finalIds = <<>>
                      THEN /\ result' = [result EXCEPT ![r] = EmptyResult(page[r])]
                           /\ pc' = [pc EXCEPT ![r] = "done"]
                           /\ UNCHANGED << sortedBuildingIds, paginatedIds >>
                      ELSE /\ sortedBuildingIds' =
                                [sortedBuildingIds EXCEPT ![r] = sorted]
                           /\ paginatedIds' = [paginatedIds EXCEPT ![r] =
                                Paginate(sorted, page[r], limit[r])]
                           /\ pc' = [pc EXCEPT ![r] = "detail"]
                           /\ UNCHANGED result
  /\ UNCHANGED << env, split, keywords, buildingsData, buildingArchitects,
                  compositions, issued, archErr >>

\* the call returns: getArchitectDataForBuildings gave architectData
Return(r, rows, architectData) ==
  /\ result' = [result EXCEPT ![r] =
       SearchResult(rows, architectData, Len(sortedBuildingIds[r]), page[r], limit[r])]
  /\ pc' = [pc EXCEPT ![r] = "done"]

\* The answer to the detail fetch: an error is thrown to the caller;
\* otherwise getArchitectDataForBuildings(paginatedIds) starts, returns {}
\* at once for no id and else issues the building_architects lookup.
DetailFetch(r) ==
  /\ pc[r] = "detail"
  /\ \E o \in Outcomes :
       LET rows == IF o = "ok" THEN DetailLookup(db, paginatedIds[r]) ELSE <<>>
       IN  /\ lastLookup' = [lastLookup EXCEPT ![r] =
                 Lookup("detail", 0, 0, 0, Len(rows), o)]
           /\ IF Propagates("detail", o)
              THEN /\ pc' = [pc EXCEPT ![r] = "failed"]
                   /\ UNCHANGED << buildingsData, result >>
              ELSE /\ buildingsData' = [buildingsData EXCEPT ![r] = rows]
                   /\ IF paginatedIds[r] = <<>>
                      THEN Return(r, rows, EmptyArchitectData)
                      ELSE /\ pc' = [pc EXCEPT ![r] = "building_architects"]
                           /\ UNCHANGED result
  /\ UNCHANGED << env, split, keywords, kwIdx, fieldIdx, offset, allBuildingIds,
                  buildingIdSets, sortedBuildingIds, paginatedIds,
                  buildingArchitects, compositions, issued, textErr, archErr >>

\* The answer to the building_architects lookup: an error, a throw or no
\* row makes getArchitectDataForBuildings return {}.
BuildingArchitectsFetch(r) ==
  /\ pc[r] = "building_architects"
  /\ \E o \in Outcomes :
       LET rows == IF o = "ok"
                   THEN BuildingArchitectsLookup(db, paginatedIds[r]) ELSE <<>>
       IN  /\ lastLookup' = [lastLookup EXCEPT ![r] =
                 Lookup("building_architects", 0, 0, 0, Len(rows), o)]
           /\ archErr' = [archErr EXCEPT ![r] = @ \/ o # "ok"]
           /\ IF Propagates("building_architects", o)
              THEN /\ pc' = [pc EXCEPT ![r] = "failed"]
                   /\ UNCHANGED << buildingArchitects, result >>
              ELSE IF rows = <<>>
              THEN /\ Return(r, buildingsData[r], EmptyArchitectData)
                   /\ UNCHANGED buildingArchitects
              ELSE /\ buildingArchitects' = [buildingArchitects EXCEPT ![r] = rows]
                   /\ pc' = [pc EXCEPT ![r] = "architect_compositions"]
                   /\ UNCHANGED result
  /\ UNCHANGED << env, split, keywords, kwIdx, fieldIdx, offset, allBuildingIds,
                  buildingIdSets, sortedBuildingIds, paginatedIds, buildingsData,
                  compositions, issued, textErr >>

\* The answer to the architect_compositions lookup for the distinct
\* architect ids of the building_architects rows.
CompositionsFetch(r) ==
  /\ pc[r] = "architect_compositions"
  /\ \E o \in Outcomes :
       LET bas == buildingArchitects[r]
           architectIds == {bas[i].architect_id : i \in 1..Len(bas)}
           rows == IF o = "ok" THEN CompositionsLookup(db, architectIds) ELSE <<>>
       IN  /\ lastLookup' = [lastLookup EXCEPT ![r] =
                 Lookup("architect_compositions", 0, 0, 0, Len(rows), o)]
           /\ archErr' = [archErr EXCEPT ![r] = @ \/ o # "ok"]
           /\ IF Propagates("architect_compositions", o)
              THEN /\ pc' = [pc EXCEPT ![r] = "failed"]
                   /\ UNCHANGED << compositions, result >>
              ELSE IF rows = <<>>
              THEN /\ Return(r, buildingsData[r], EmptyArchitectData)
                   /\ UNCHANGED compositions
              ELSE /\ compositions' = [compositions EXCEPT ![r] = rows]
                   /\ pc' = [pc EXCEPT ![r] = "individual_architects"]
                   /\ UNCHANGED result
  /\ UNCHANGED << env, split, keywords, kwIdx, fieldIdx, offset, allBuildingIds,
                  buildingIdSets, sortedBuildingIds, paginatedIds, buildingsData,
                  buildingArchitects, issued, textErr >>

\* The answer to the individual_architects lookup; the three answers are
\* joined into architectData and searchBuildings shapes its result.
IndividualsFetch(r) ==
  /\ pc[r] = "individual_architects"
  /\ \E o \in Outcomes :
       LET comps == compositions[r]
           ids == {comps[i].individual_architect_id : i \in 1..Len(comps)}
           rows == IF o = "ok" THEN IndividualsLookup(db, ids) ELSE <<>>
       IN  /\ lastLookup' = [lastLookup EXCEPT ![r] =
                 Lookup("individual_architects", 0, 0, 0, Len(rows), o)]
           /\ archErr' = [archErr EXCEPT ![r] = @ \/ o # "ok"]
           /\ IF Propagates("individual_architects", o)
              THEN /\ pc' = [pc EXCEPT ![r] = "failed"]
                   /\ UNCHANGED result
              ELSE IF o # "ok"
              THEN Return(r, buildingsData[r], EmptyArchitectData)
              ELSE Return(r, buildingsData[r],
                          ArchitectData(buildingArchitects[r], comps, rows))
  /\ UNCHANGED << env, split, keywords, kwIdx, fieldIdx, offset, allBuildingIds,
                  buildingIdSets, sortedBuildingIds, paginatedIds, buildingsData,
                  buildingArchitects, compositions, issued, textErr >>

Step(r) ==
  \/ StartSearch(r)
  \/ FieldLookup(r)
  \/ DetailFetch(r)
  \/ BuildingArchitectsFetch(r)
  \/ CompositionsFetch(r)
  \/ IndividualsFetch(r)

Next == \E r \in Requests : Step(r)

Spec == Init /\ [][Next]_vars

SpecConcurrent == InitConcurrent /\ [][Next]_vars

SpecSplit == InitSplit /\ [][SplitKeywordsCall]_vars

\* ------------------------------------------- the call as a function
\* What the code computes when every lookup answers { data }: the window
\* loop, the field loop, the keyword loop and the whole of searchBuildings
\* run to the end by one caller.
RECURSIVE FetchWindows(_, _, _, _, _)
FetchWindows(d, field, keyword, off, ids) ==
  LET data == TextLookup(d, field, keyword, off)
  IN  IF Len(data) > 0
      THEN IF Len(data) < WINDOW
           THEN AddAll(ids, data)
           ELSE FetchWindows(d, field, keyword, off + WINDOW, AddAll(ids, data))
      ELSE ids

RECURSIVE FetchFields(_, _, _, _)
FetchFields(d, keyword, f, ids) ==
  IF f > Len(Fields) THEN ids
  ELSE FetchFields(d, keyword, f + 1, FetchWindows(d, Fields[f], keyword, 0, ids))

KeywordIds(d, keyword) ==
  KeywordSet(FetchFields(d, keyword, 1, <<>>), architectBuildingIds(d, keyword))

searchBuildingIdsByKeywords(d, ks) ==
  IF ks = <<>> THEN <<>>
  ELSE Intersect([i \in 1..Len(ks) |-> KeywordIds(d, ks[i])])

getArchitectDataForBuildings(d, buildingIds) ==
  IF buildingIds = <<>> THEN EmptyArchitectData
  ELSE LET bas == BuildingArchitectsLookup(d, buildingIds)
           comps == CompositionsLookup(d, {bas[i].architect_id : i \in 1..Len(bas)})
           ias == IndividualsLookup(d,
                    {comps[i].individual_architect_id : i \in 1..Len(comps)})
       IN  IF bas = <<>> \/ comps = <<>> THEN EmptyArchitectData
           ELSE ArchitectData(bas, comps, ias)

searchBuildings(d, q, p, l) ==
  LET ks == splitKeywords(IF q = UNDEFINED THEN <<>> ELSE q)
      buildingIds == searchBuildingIdsByKeywords(d, ks)
      sorted == SortDescending(buildingIds)
      pageIds == Paginate(sorted, p, l)
  IN  IF buildingIds = <<>> THEN EmptyResult(p)
      ELSE SearchResult(DetailLookup(d, pageIds),
                        getArchitectDataForBuildings(d, pageIds),
                        Len(buildingIds), p, l)

\* ------------------------------------------------------------ properties
\* What the properties speak of, stated over the tables and not over the code.
BuildingIdsOf(d) ==
  {d.buildings_table_2[i].building_id : i \in 1..Len(d.buildings_table_2)}

\* some text column of building b contains k
MatchesText(d, b, k) ==
  \E row \in Range(d.buildings_table_2) :
    row.building_id = b /\ \E f \in Range(Fields) : ILike(row.text[f], k)

\* b is credited to a group with a member whose name_ja or name_en contains k
MatchesArchitect(d, b, k) ==
  \E ba \in Range(d.building_architects) :
    \E ac \in Range(d.architect_compositions) :
      \E ia \in Range(d.individual_architects) :
        /\ ba.building_id = b
        /\ ac.architect_id = ba.architect_id
        /\ ia.individual_architect_id = ac.individual_architect_id
        /\ (ILike(ia.name_ja, k) \/ ILike(ia.name_en, k))

MatchSet(d, k) == {b \in BuildingIdsOf(d) : MatchesText(d, b, k)}

AndMatchSet(d, ks) ==
  {b \in BuildingIdsOf(d) : \A i \in 1..Len(ks) : MatchesText(d, b, ks[i])}

\* the elements of a set of numbers, largest first
Descending(S) ==
  [i \in 1..Cardinality(S) |->
     CHOOSE x \in S : Cardinality({y \in S : y > x}) = i - 1]

\* every keyword of call r has its id-set
Resolved(r) ==
  /\ keywords[r] # <<>>
  /\ pc[r] \in {"detail", "building_architects", "architect_compositions",
                "individual_architects", "done"}

DataIds(res) == [i \in 1..Len(res.data) |-> res.data[i].building_id]

\* C1: a building that no text column matches for keyword k, but that is
\* credited to an architect group with a member whose name contains k, is in
\* the id-set of k, and a single-keyword search for k matches it.
C1_ArchitectChainInKeywordSet ==
  \A r \in active :
    (Resolved(r) /\ ~textErr[r]) =>
      \A i \in 1..Len(keywords[r]) : \A b \in BuildingIdsOf(db) :
        (~MatchesText(db, b, keywords[r][i]) /\ MatchesArchitect(db, b, keywords[r][i]))
          => /\ b \in Range(buildingIdSets[Slot(r)][i])
             /\ Len(keywords[r]) = 1 => b \in Range(sortedBuildingIds[r])

\* C2: with no failed lookup, the ids matched for the keyword list K are a
\* subset of the ids matched for [k], for every k of K, and are exactly the
\* intersection of the per-keyword id-sets.
C2_AndSemantics ==
  \A r \in active :
    (Resolved(r) /\ ~textErr[r]) =>
      LET K == keywords[r]
          matched == Range(sortedBuildingIds[r])
          single(i) == Range(searchBuildingIdsByKeywords(db, <<K[i]>>))
      IN  /\ \A i \in 1..Len(K) : matched \subseteq single(i)
          /\ matched = {b \in BuildingIdsOf(db) : \A i \in 1..Len(K) : b \in single(i)}
          /\ matched = {b \in BuildingIdsOf(db) :
                          \A i \in 1..Len(K) : b \in Range(buildingIdSets[Slot(r)][i])}

C2_Witness ==
  /\ pc[1] = "done" /\ ~textErr[1]
  /\ Len(keywords[1]) = 2
  /\ Range(sortedBuildingIds[1]) = {2}
  /\ Range(searchBuildingIdsByKeywords(db, <<keywords[1][1]>>)) = {2, 3}
  /\ Range(searchBuildingIdsByKeywords(db, <<keywords[1][2]>>)) = {1, 2}

\* C3: with N >= 1 matched ids, limit L and page p and no failed lookup, the
\* call returns count N and totalPages ceil(N / L) for every p, and data
\* holds the buildings at positions [(p-1)*L, p*L) of the matched ids in
\* descending order, in that order.
C3_Pagination ==
  \A r \in active :
    LET ks == splitKeywords(IF query[r] = UNDEFINED THEN <<>> ELSE query[r])
        ids == Descending(AndMatchSet(db, ks))
        N == Len(ids)
        L == limit[r]
        first == (page[r] - 1) * L
        size == IF first >= N THEN 0 ELSE Min(L, N - first)
    IN  (pc[r] = "done" /\ ~textErr[r] /\ ~archErr[r] /\ ks # <<>> /\ N >= 1) =>
          /\ result[r].count = N
          /\ result[r].page = page[r]
          /\ (result[r].totalPages - 1) * L < N /\ N <= result[r].totalPages * L
          /\ DataIds(result[r]) = [j \in 1..size |-> ids[first + j]]
          /\ Len(result[r].data) <= L

C3_Witness ==
  /\ pc[1] = "done" /\ ~textErr[1] /\ ~archErr[1]
  /\ limit[1] = 2 /\ page[1] = 2
  /\ result[1].count = 3 /\ result[1].totalPages = 2
  /\ DataIds(result[1]) = <<1>>

\* the query is undefined, empty or yields no keyword
NoKeyword(q) == q = UNDEFINED \/ \A i \in 1..Len(q) : IsWhite(q[i])

WellFormedEmpty(r) ==
  result[r] = [data |-> <<>>, count |-> 0, page |-> page[r], totalPages |-> 0]

\* C4: for a query that is undefined, empty or without keyword the call
\* returns { data: [], count: 0, page, totalPages: 0 }, raises no error and
\* issues no remote lookup; the same result is returned when there are
\* keywords and nothing matches.
C4_EmptyResult ==
  \A r \in active :
    /\ (NoKeyword(query[r]) /\ pc[r] # "init") =>
         pc[r] = "done" /\ WellFormedEmpty(r) /\ ~issued[r]
            /\ lastLookup[r] = NoLookup
    /\ (pc[r] = "done" /\ sortedBuildingIds[r] = <<>>) => WellFormedEmpty(r)

C4_Witness ==
  /\ pc[1] = "done" /\ query[1] = <<SP, FWSP>> /\ page[1] = 2
  /\ WellFormedEmpty(1) /\ ~issued[1]

\* C5: the call fails towards its caller if and only if the detail fetch
\* failed; a failed text-field or architect lookup counts as no result of
\* its step and the call still returns.
C5_FailsOnlyOnDetailFetch ==
  \A r \in active :
    pc[r] = "failed" <=>
      (lastLookup[r].stage = "detail" /\ lastLookup[r].outcome # "ok")

\* the names of the members of the groups of building b, by architect_order
\* and then by order_index, the nameless left out
NamedMembers(d, b, language) ==
  LET joined == {t \in Range(d.building_architects) \X Range(d.architect_compositions)
                        \X Range(d.individual_architects) :
                   /\ t[1].building_id = b
                   /\ t[2].architect_id = t[1].architect_id
                   /\ t[3].individual_architect_id = t[2].individual_architect_id
                   /\ NameIn(t[3], language) # <<>>}
      E == {<<t[1].architect_order, t[2].order_index, NameIn(t[3], language)>> :
              t \in joined}
      less(x, y) == x[1] < y[1] \/ (x[1] = y[1] /\ x[2] < y[2])
  IN  [i \in 1..Cardinality(E) |->
        (CHOOSE e \in E : Cardinality({x \in E : less(x, e)}) = i - 1)[3]]

\* no leading, trailing or doubled ' / '
NoEmptySlot(str) ==
  \/ str = <<>>
  \/ /\ str[1] # " " /\ str[Len(str)] # " "
     /\ \A i \in 1..(Len(str) - 1) : ~(str[i] = " " /\ str[i + 1] = " ")

ReassembledIn(res, d) ==
  \A i \in 1..Len(res.data) :
    LET row == res.data[i]
    IN  /\ row.architectJa = Join(NamedMembers(d, row.building_id, "ja"), SEP)
        /\ row.architectEn = Join(NamedMembers(d, row.building_id, "en"), SEP)
        /\ NoEmptySlot(row.architectJa) /\ NoEmptySlot(row.architectEn)

\* C6, as the specification words it: for every returned building the architect strings are the
\* ' / '-joined names of its groups' members in architect_order and
\* order_index, the nameless skipped.
C6_Reassembly_AsClaimed ==
  \A r \in active : pc[r] = "done" => ReassembledIn(result[r], db)

\* C6: provided none of the three architect lookups of the call fails, for
\* every returned building architectJa and architectEn are the ' / '-joined
\* names of its groups' members, by ascending architect_order and then
\* ascending order_index, a member without a name and a group without a
\* named member contributing nothing (no empty slot).
C6_Reassembly ==
  \A r \in active : (pc[r] = "done" /\ ~archErr[r]) => ReassembledIn(result[r], db)

C6_Witness ==
  /\ pc[1] = "done" /\ ~archErr[1]
  /\ \E i \in 1..Len(result[1].data) :
       /\ result[1].data[i].building_id = 3
       /\ result[1].data[i].architectJa =
            <<"e", " ", "/", " ", "f", " ", "/", " ", "d", " ", "/", " ", "c">>
       /\ result[1].data[i].architectEn =
            <<"E", " ", "/", " ", "F", " ", "/", " ", "D", " ", "/", " ", "C">>

IsSpace(c) == c \in {SP, FWSP}

\* the maximal runs of characters other than the two spaces that are not
\* blank, as <<first, last>>
TokenRuns(str) ==
  {run \in (1..Len(str)) \X (1..Len(str)) :
     /\ run[1] <= run[2]
     /\ \A k \in run[1]..run[2] : ~IsSpace(str[k])
     /\ (run[1] = 1 \/ IsSpace(str[run[1] - 1]))
     /\ (run[2] = Len(str) \/ IsSpace(str[run[2] + 1]))
     /\ \E k \in run[1]..run[2] : ~IsWhite(str[k])}

ExpectedTokens(str) ==
  LET runs == TokenRuns(str)
  IN  [n \in 1..Cardinality(runs) |->
        LET run == CHOOSE x \in runs : Cardinality({y \in runs : y[1] < x[1]}) = n - 1
        IN  SubSeq(str, run[1], run[2])]

\* C7: splitKeywords returns, in their order and with their duplicates, the
\* non-blank pieces between half-width and full-width spaces: every token is
\* non-empty and holds neither space, "A<U+3000>B C" gives [A, B, C], the
\* empty string and a string of spaces give [].
C7_SplitKeywords ==
  splitPc = "done" =>
    /\ kws = ExpectedTokens(sq)
    /\ \A n \in 1..Len(kws) :
         kws[n] # <<>> /\ \A k \in 1..Len(kws[n]) : ~IsSpace(kws[n][k])
    /\ (\A i \in 1..Len(sq) : IsSpace(sq[i])) => kws = <<>>
    /\ sq = <<"A", FWSP, "B", SP, "C">> => kws = << <<"A">>, <<"B">>, <<"C">> >>

C7_Witness ==
  /\ splitPc = "done"
  /\ sq = <<"A", FWSP, "B", SP, "C">>
  /\ kws = << <<"A">>, <<"B">>, <<"C">> >>

\* C8: when a lookup of the architect reassembly reports an error or throws,
\* the call still returns, with the page's rows and the count, page and
\* totalPages of the run without the failure; the architect strings of the
\* returned buildings are empty.
C8_ArchitectFailureDegrades ==
  \A r \in active :
    archErr[r] =>
      /\ pc[r] = "done"
      /\ \A i \in 1..Len(result[r].data) :
           result[r].data[i].architectJa = <<>> /\ result[r].data[i].architectEn = <<>>
      /\ ~textErr[r] =>
           LET clean == searchBuildings(db, query[r], page[r], limit[r])
           IN  /\ result[r].count = clean.count
               /\ result[r].page = clean.page
               /\ result[r].totalPages = clean.totalPages
               /\ DataIds(result[r]) = DataIds(clean)

C8_Witness ==
  /\ pc[1] = "done" /\ archErr[1] /\ ~textErr[1]
  /\ lastLookup[1].stage = "architect_compositions"
  /\ lastLookup[1].outcome = "throw"
  /\ DataIds(result[1]) = <<3, 2>> /\ result[1].count = 3
  /\ searchBuildings(db, query[1], page[1], limit[1]).data[1].architectJa # <<>>

\* C9: under every interleaving of the lookups of two calls on the same
\* database, each call returns what it returns when it runs alone.
C9_NoInterference ==
  \A r \in active :
    /\ pc[r] # "failed"
    /\ pc[r] = "done" => result[r] = searchBuildings(db, query[r], page[r], limit[r])

C9_Witness ==
  /\ pc[1] = "done" /\ pc[2] = "done"
  /\ Len(keywords[1]) = 2 /\ Len(keywords[2]) = 1
  /\ result[1].count = 3 /\ result[2].count = 3
  /\ page[1] # page[2]
  /\ result[1] # result[2]

\* the rows of the table that match keyword k in column f
MatchCount(d, f, k) ==
  Cardinality({i \in 1..Len(d.buildings_table_2) :
                 ILike(d.buildings_table_2[i].text[f], k)})

\* C10: the lookups of a field are issued at offsets 0, WINDOW, 2*WINDOW,
\* ...; the next window is requested exactly when the last answer was a full
\* window without an error; the offset never passes the number of matching
\* rows, so the loop ends; and with no failed lookup the id-set of a keyword
\* holds the id of every row matching any field, each once.
C10_WindowedFetch ==
  \A r \in active :
    LET last == lastLookup[r]
        continues == /\ pc[r] = "field"
                     /\ kwIdx[r] = last.keyword /\ fieldIdx[r] = last.field
                     /\ offset[r] = last.offset + WINDOW
    IN  /\ pc[r] = "field" =>
             /\ offset[r] % WINDOW = 0
             /\ offset[r] <= MatchCount(db, Fields[fieldIdx[r]], keywords[r][kwIdx[r]])
        /\ last.stage = "text" =>
             /\ continues <=> (last.outcome = "ok" /\ last.rows = WINDOW)
             /\ (pc[r] = "field" /\ ~continues) =>
                  /\ offset[r] = 0
                  /\ \/ kwIdx[r] = last.keyword /\ fieldIdx[r] = last.field + 1
                     \/ /\ kwIdx[r] = last.keyword + 1 /\ fieldIdx[r] = 1
                        /\ last.field = Len(Fields)
        /\ (Resolved(r) /\ ~textErr[r]) =>
             \A i \in 1..Len(keywords[r]) :
               LET set == buildingIdSets[Slot(r)][i]
               IN  /\ Range(set) = MatchSet(db, keywords[r][i])
                   /\ Len(set) = Cardinality(Range(set))

C10_Witness ==
  /\ Resolved(1) /\ ~textErr[1]
  /\ MatchCount(db, "title", keywords[1][1]) = 3
  /\ Len(buildingIdSets[1][1]) = 3


====
